---- MODULE Spec2Model ----
(***************************************************************************)
(* The HEIC converter's App component: the accepted-file list, the         *)
(* converted-image list, the object URLs it creates and revokes, and the   *)
(* asynchronous add / convert / download-all operations.                   *)
(*                                                                         *)
(* The repository holds two revisions of App.  src/unnamed/part_000 is the *)
(* one with thumbnails, the effect cleanup and the Clear All button;       *)
(* src/src/App.jsx is the one without them.  The variable `app` says which *)
(* of the two is mounted.                                                  *)
(***************************************************************************)
EXTENDS Integers, Sequences, FiniteSets, TLC

\* ------------------------------------------------------------------ bounds
MaxOps == 3         \* user actions (add, convert, clear, ...) in one behaviour
MaxFiles == 2       \* files handed over in one behaviour, in all its adds

\* --------------------------------------------------------- program constants
MAX_FILE_SIZE_MB == 25

MaxBytes == MAX_FILE_SIZE_MB * 1024 * 1024

Apps == {"part_000", "App.jsx"}

\* ---------------------------------------------------------------- strings
\* A file name is a sequence of one-character strings.
ToLower(c) ==
    CASE c = "H" -> "h"
      [] c = "E" -> "e"
      [] c = "I" -> "i"
      [] c = "C" -> "c"
      [] c = "F" -> "f"
      [] OTHER -> c

LowerAll(s) == [i \in 1..Len(s) |-> ToLower(s[i])]

EndsWith(s, suffix) ==
    /\ Len(s) >= Len(suffix)
    /\ SubSeq(s, Len(s) - Len(suffix) + 1, Len(s)) = suffix

DotHeic == <<".", "h", "e", "i", "c">>
DotHeif == <<".", "h", "e", "i", "f">>

FormatChars(fmt) ==
    IF fmt = "jpeg" THEN <<"j", "p", "e", "g">> ELSE <<"p", "n", "g">>

\* `.${outputFormat}`
TargetExt(fmt) == <<".">> \o FormatChars(fmt)

\* Does name match the regular expression the revision uses?
\*   part_000: /\.(heic|heif)$/i      App.jsx: /\.heic$/
SourceExtMatches(a, name) ==
    IF a = "part_000"
    THEN EndsWith(LowerAll(name), DotHeic) \/ EndsWith(LowerAll(name), DotHeif)
    ELSE EndsWith(name, DotHeic)

\* name.replace(regex, `.${outputFormat}`): the match, when there is one, is
\* the last five characters; without a match the string comes back unchanged.
OutputName(a, name, fmt) ==
    IF SourceExtMatches(a, name)
    THEN SubSeq(name, 1, Len(name) - 5) \o TargetExt(fmt)
    ELSE name

\* ------------------------------------------------------------------ files
\* A candidate file: its display name, declared media type and byte length.
MkFile(n, t, s) == [name |-> n, type |-> t, size |-> s]

Pool ==
    { MkFile(<<"a", ".", "h", "e", "i", "c">>, "image/heic", 1),
      MkFile(<<"a", ".", "H", "E", "I", "F">>, "image/heif", MaxBytes),
      MkFile(<<"a">>, "image/x-heic", 1),
      MkFile(<<"b", ".", "h", "e", "i", "c">>, "image/heic", MaxBytes + 1),
      MkFile(<<"c", ".", "h", "e", "i", "c">>, "image/png", 1) }

Batches == UNION { [1..n -> Pool] : n \in 0..MaxFiles }

\* --------------------------------------------------------------- messages
NoError == [kind |-> "null", name |-> <<>>]
UnsupportedMsg(n) == [kind |-> "unsupported", name |-> n]
TooLargeMsg(n) == [kind |-> "tooLarge", name |-> n]
ConvertFailedMsg(n) == [kind |-> "convertFailed", name |-> n]
ZipFailedMsg == [kind |-> "zipFailed", name |-> <<>>]

\* ------------------------------------------------------------- validation
AllowedTypes(a) ==
    IF a = "part_000"
    THEN {"image/heic", "image/heif", "image/x-heic", "image/x-heif"}
    ELSE {"image/heic", "image/heif"}

\* (as a bug would have it: any image type passes)
TypeOkAnyImage(a, file) ==
    file.type \in AllowedTypes(a) \cup {"image/png", "image/x-heic", "image/x-heif"}

TypeOk(a, file) == file.type \in AllowedTypes(a)

\* (as a bug would have it: the boundary itself is refused)
SizeOkBelow(file) == file.size < MaxBytes

SizeOk(file) == ~(file.size > MaxBytes)

\* The filter callback's return value for one file.
Accepts(a, file) == TypeOk(a, file) /\ SizeOk(file)

\* The message the filter callback stores for a file it rejects.
RejectMsg(a, file) ==
    IF ~TypeOk(a, file) THEN UnsupportedMsg(file.name) ELSE TooLargeMsg(file.name)

\* acceptedFiles.filter(...): the files kept, in order.
RECURSIVE Filter(_, _)
Filter(a, files) ==
    IF files = <<>> THEN <<>>
    ELSE LET rest == Filter(a, Tail(files))
         IN IF Accepts(a, Head(files)) THEN <<Head(files)>> \o rest ELSE rest

\* setError(null) followed by the filter's setError calls: the last one wins.
RECURSIVE ErrorAfterFilter(_, _, _)
ErrorAfterFilter(a, files, err) ==
    IF files = <<>> THEN err
    ELSE ErrorAfterFilter(a, Tail(files),
             IF Accepts(a, Head(files)) THEN err ELSE RejectMsg(a, Head(files)))

\* ------------------------------------------------------------------ state
VARIABLES
    app,              \* which revision of App is mounted
    mounted,          \* FALSE once the component has been torn down
    heicFiles,        \* useState: the accepted items, [file, thumbnail]
    convertedImages,  \* useState: the converted items
    outputFormat,     \* useState: "jpeg" or "png"
    loading,          \* useState
    error,            \* useState: the message shown, NoError for null
    urls,             \* every object URL created so far: urls[h] is handle h
    adds,             \* handleFileChange calls awaiting their thumbnails
    runs,             \* convertImages calls in flight
    zips,             \* downloadAllImages calls awaiting generateAsync
    archives,         \* the archives whose download was triggered, each with
                      \* the images it was built from
    history,          \* the user actions taken so far, in order
    quiet,            \* history: no user action was taken with a call in flight
    given,            \* files handed over so far
    lastAction,       \* history: the step taken last
    lastBatch,        \* history: the files handed over, if the last step was an add
    admitted,         \* history: files that passed validation, until a clear
    everCleared,      \* history: Clear All has been clicked
    errWriter,        \* history: the operation that wrote `error` last
    recovering        \* the user has set out to bring the component back to
                      \* its idle state (used by SpecRecover only)

vars == <<app, mounted, heicFiles, convertedImages, outputFormat, loading,
          error, urls, adds, runs, zips, archives, history, quiet, given,
          lastAction,
          lastBatch,
          admitted, everCleared, errWriter, recovering>>

\* ------------------------------------------------------------ object URLs
\* A handle is its index in urls; 0 stands for null (no thumbnail).
NoHandle == 0
Pending == -1

\* URL.createObjectURL(blob): the table with one more handle, of kind k.
CreateUrl(table, k) == Append(table, [kind |-> k, revokes |-> 0])

\* URL.revokeObjectURL(h); revokeObjectURL(null) touches no handle.
RevokeUrl(table, h) ==
    IF h \in DOMAIN table
    THEN [table EXCEPT ![h].revokes = @ + 1]
    ELSE table

RECURSIVE RevokeAll(_, _)
RevokeAll(table, hs) ==
    IF hs = <<>> THEN table
    ELSE RevokeAll(RevokeUrl(table, Head(hs)), Tail(hs))

Thumbnails(items) == [i \in 1..Len(items) |-> items[i].thumbnail]
OutputUrls(images) == [i \in 1..Len(images) |-> images[i].url]

\* heicFiles.forEach(revoke thumbnail); convertedImages.forEach(revoke url)
RevokeLists(table, items, images) ==
    RevokeAll(RevokeAll(table, Thumbnails(items)), OutputUrls(images))

\* The cleanup of the effect on [heicFiles, convertedImages]: it runs, with
\* the lists of the render it was set up in, when either list is replaced and
\* when the component is torn down.  App.jsx has no such effect.
EffectCleanup(a, table, items, images) ==
    IF a = "part_000" THEN RevokeLists(table, items, images) ELSE table

\* ------------------------------------------------------------------- Init
Init ==
    /\ app \in Apps
    /\ mounted = TRUE
    /\ heicFiles = <<>>
    /\ convertedImages = <<>>
    /\ outputFormat = "jpeg"
    /\ loading = FALSE
    /\ error = NoError
    /\ urls = <<>>
    /\ adds = <<>>
    /\ runs = <<>>
    /\ zips = <<>>
    /\ archives = <<>>
    /\ history = <<>>
    /\ quiet = TRUE
    /\ given = 0
    /\ lastAction = "Init"
    /\ lastBatch = <<>>
    /\ admitted = <<>>
    /\ everCleared = FALSE
    /\ errWriter = "Init"
    /\ recovering = FALSE

\* No promise of the component is pending.
Idle == adds = <<>> /\ runs = <<>> /\ zips = <<>>

RemoveAt(seq, i) == SubSeq(seq, 1, i - 1) \o SubSeq(seq, i + 1, Len(seq))

\* ---------------------------------------------------------- add (files in)
\* (as a bug would have it: the new items replace the list)
ReplaceFiles(prevFiles, items) == items

\* setHeicFiles(prevFiles => [...prevFiles, ...items])
AppendFiles(prevFiles, items) == prevFiles \o items

\* App.jsx keeps the File objects themselves: items without a thumbnail.
BareItems(files) ==
    [i \in 1..Len(files) |-> [file |-> files[i], thumbnail |-> NoHandle]]

\* handleFileChange up to its first await: the error is reset, the files are
\* filtered, and (part_000) one thumbnail request per kept file is issued, or
\* (App.jsx) the kept files are appended at once.
AddStart(batch) ==
    /\ mounted
    /\ recovering \/ Len(history) < MaxOps
    /\ recovering \/ given + Len(batch) <= MaxFiles
    /\ history' = Append(history, "add")
    /\ quiet' = (quiet /\ Idle)
    /\ given' = given + Len(batch)
    /\ lastAction' = "AddStart"
    /\ lastBatch' = batch
    /\ UNCHANGED recovering
    /\ error' = ErrorAfterFilter(app, batch, NoError)
    /\ errWriter' = "add"
    /\ admitted' = IF everCleared THEN admitted
                   ELSE admitted \o Filter(app, batch)
    /\ IF app = "part_000"
       THEN /\ adds' = Append(adds,
                   [files |-> Filter(app, batch),
                    thumbs |-> [i \in 1..Len(Filter(app, batch)) |-> Pending]])
            /\ UNCHANGED heicFiles
       ELSE /\ heicFiles' = AppendFiles(heicFiles, BareItems(Filter(app, batch)))
            /\ UNCHANGED adds
    /\ UNCHANGED <<app, mounted, convertedImages, outputFormat, loading, urls,
                   runs, zips, archives, everCleared>>

\* One thumbnail request of add a settles.  On success the three
\* createObjectURL calls of lines 43, 44 and 47 run; the third is the
\* thumbnail.  On failure the item gets thumbnail null.
ThumbSettle(a, j, ok) ==
    /\ a \in DOMAIN adds
    /\ j \in DOMAIN adds[a].thumbs
    /\ adds[a].thumbs[j] = Pending
    /\ lastAction' = "ThumbSettle"
    /\ lastBatch' = <<>>
    /\ UNCHANGED <<given, recovering>>
    /\ IF ok
       THEN /\ urls' = CreateUrl(CreateUrl(CreateUrl(urls, "log-file"),
                                           "log-thumb"), "thumbnail")
            /\ adds' = [adds EXCEPT ![a].thumbs[j] = Len(urls) + 3]
       ELSE /\ adds' = [adds EXCEPT ![a].thumbs[j] = NoHandle]
            /\ UNCHANGED urls
    /\ UNCHANGED <<app, mounted, heicFiles, convertedImages, outputFormat,
                   loading, error, runs, zips, archives, history, quiet,
                   admitted, everCleared, errWriter>>

\* (as a bug would have it: a file without a thumbnail is left out)
ThumbItemsOnlyOk(add) ==
    SelectSeq([i \in 1..Len(add.files) |->
                  [file |-> add.files[i], thumbnail |-> add.thumbs[i]]],
              LAMBDA item : item.thumbnail # NoHandle)

ThumbItems(add) ==
    [i \in 1..Len(add.files) |->
        [file |-> add.files[i], thumbnail |-> add.thumbs[i]]]

\* Promise.all has resolved: the items of add a are appended in one step, and
\* the effect cleanup runs on the lists that were rendered until now.
AddPublish(a) ==
    /\ a \in DOMAIN adds
    /\ \A j \in DOMAIN adds[a].thumbs : adds[a].thumbs[j] # Pending
    /\ lastAction' = "AddPublish"
    /\ lastBatch' = <<>>
    /\ UNCHANGED <<given, recovering>>
    /\ adds' = RemoveAt(adds, a)
    /\ IF mounted
       THEN /\ heicFiles' = AppendFiles(heicFiles, ThumbItems(adds[a]))
            /\ urls' = EffectCleanup(app, urls, heicFiles, convertedImages)
       ELSE UNCHANGED <<heicFiles, urls>>
    /\ UNCHANGED <<app, mounted, convertedImages, outputFormat, loading, error,
                   runs, zips, archives, history, quiet, admitted, everCleared,
                   errWriter>>

\* ----------------------------------------------------------------- convert
\* (as a bug would have it: the button ignores loading)
ConvertEnabledWhileLoading == ~(Len(heicFiles) = 0)

\* The Convert button: disabled={heicFiles.length === 0 || loading}
ConvertEnabled == ~(Len(heicFiles) = 0 \/ loading)

SetFormat(fmt) ==
    /\ mounted
    /\ Len(history) < MaxOps
    /\ fmt # outputFormat
    /\ history' = Append(history, "format")
    /\ quiet' = (quiet /\ Idle)
    /\ lastAction' = "SetFormat"
    /\ lastBatch' = <<>>
    /\ UNCHANGED <<given, recovering>>
    /\ outputFormat' = fmt
    /\ UNCHANGED <<app, mounted, heicFiles, convertedImages, loading, error,
                   urls, adds, runs, zips, archives, admitted,
                   everCleared, errWriter>>

\* convertImages up to its first await.  The loop runs over the heicFiles and
\* the outputFormat of the render the click happened in.
ConvertStart ==
    /\ mounted
    /\ Len(history) < MaxOps
    /\ ConvertEnabled
    /\ history' = Append(history, "convert")
    /\ quiet' = (quiet /\ Idle)
    /\ lastAction' = "ConvertStart"
    /\ lastBatch' = <<>>
    /\ UNCHANGED <<given, recovering>>
    /\ loading' = TRUE
    /\ error' = NoError
    /\ errWriter' = "convertStart"
    /\ convertedImages' = <<>>
    /\ urls' = EffectCleanup(app, urls, heicFiles, convertedImages)
    /\ runs' = Append(runs, [items |-> heicFiles, fmt |-> outputFormat,
                             idx |-> 1, out |-> <<>>, failed |-> <<>>])
    /\ UNCHANGED <<app, mounted, heicFiles, outputFormat, adds, zips, archives,
                   admitted, everCleared>>

\* The item pushed for a successful conversion.
ConvertedItem(a, file, fmt, url) ==
    [name |-> OutputName(a, file.name, fmt),
     url |-> url,
     blob |-> [src |-> file, type |-> fmt],
     originalFile |-> file]

\* (as a bug would have it: the item is pushed whatever the call's outcome)
AfterCallAlwaysPush(out, item, ok) == Append(out, item)

\* (as a bug would have it: unshift instead of push)
AfterCallUnshift(out, item, ok) == IF ok THEN <<item>> \o out ELSE out

\* What the loop body leaves in newConvertedImages: the try block pushes the
\* item, the catch block pushes nothing.
AfterCall(out, item, ok) == IF ok THEN Append(out, item) ELSE out

\* The message after the loop body: the catch block's setError.
ErrorAfterCall(err, file, ok) == IF ok THEN err ELSE ConvertFailedMsg(file.name)

\* The codec call for the next item of run r settles.
ConvertStep(r, ok) ==
    /\ r \in DOMAIN runs
    /\ runs[r].idx <= Len(runs[r].items)
    /\ lastAction' = "ConvertStep"
    /\ lastBatch' = <<>>
    /\ UNCHANGED <<given, recovering>>
    /\ LET run == runs[r]
           file == run.items[run.idx].file
           item == ConvertedItem(app, file, run.fmt, Len(urls) + 1)
       IN /\ runs' = [runs EXCEPT ![r].idx = @ + 1,
                                  ![r].out = AfterCall(@, item, ok),
                                  ![r].failed = IF ok THEN @
                                                ELSE Append(@, file.name)]
          /\ urls' = IF ok THEN CreateUrl(urls, "output") ELSE urls
          /\ IF mounted /\ ~ok
             THEN /\ error' = ErrorAfterCall(error, file, ok)
                  /\ errWriter' = "convertFail"
             ELSE UNCHANGED <<error, errWriter>>
    /\ UNCHANGED <<app, mounted, heicFiles, convertedImages, outputFormat,
                   loading, adds, zips, archives, history, quiet, admitted,
                   everCleared>>

\* The loop is over: the results are published and loading is reset.
ConvertFinish(r) ==
    /\ r \in DOMAIN runs
    /\ runs[r].idx > Len(runs[r].items)
    /\ lastAction' = "ConvertFinish"
    /\ lastBatch' = <<>>
    /\ UNCHANGED <<given, recovering>>
    /\ runs' = RemoveAt(runs, r)
    /\ IF mounted
       THEN /\ convertedImages' = runs[r].out
            /\ loading' = FALSE
            /\ urls' = EffectCleanup(app, urls, heicFiles, convertedImages)
       ELSE UNCHANGED <<convertedImages, loading, urls>>
    /\ UNCHANGED <<app, mounted, heicFiles, outputFormat, error, adds, zips,
                   archives, history, quiet, admitted, everCleared, errWriter>>

\* ------------------------------------------------------------ download all
\* zip.file(image.name, image.blob) for each image in turn: an archive maps
\* entry names to blobs, and a later file of the same name replaces the entry.
RECURSIVE ZipFiles(_, _)
ZipFiles(zip, images) ==
    IF images = <<>> THEN zip
    ELSE LET image == Head(images)
         IN ZipFiles([n \in DOMAIN zip \cup {image.name} |->
                         IF n = image.name THEN image.blob ELSE zip[n]],
                     Tail(images))

EmptyZip == [n \in {} |-> 0]

\* The Download All button is rendered while convertedImages is not empty and
\* disabled={convertedImages.length === 0 || loading}; the handler returns at
\* once on an empty list.
DownloadAllEnabled == ~(Len(convertedImages) = 0 \/ loading)

DownloadAllStart ==
    /\ mounted
    /\ Len(history) < MaxOps
    /\ DownloadAllEnabled
    /\ history' = Append(history, "download-all")
    /\ quiet' = (quiet /\ Idle)
    /\ lastAction' = "DownloadAllStart"
    /\ lastBatch' = <<>>
    /\ UNCHANGED <<given, recovering>>
    /\ loading' = TRUE
    /\ zips' = Append(zips, [entries |-> ZipFiles(EmptyZip, convertedImages),
                             images |-> convertedImages])
    /\ UNCHANGED <<app, mounted, heicFiles, convertedImages, outputFormat,
                   error, urls, adds, runs, archives, admitted,
                   everCleared, errWriter>>

\* (as a bug would have it: the catch block sets no message)
ErrorAfterZipSilent(err, ok) == err

\* The message after the try / catch: the catch block's setError.
ErrorAfterZip(err, ok) == IF ok THEN err ELSE ZipFailedMsg

\* (as a bug would have it: loading is reset at the end of the try block)
LoadingAfterZipTryOnly(l, ok) == IF ok THEN FALSE ELSE l

\* loading after the finally block.
LoadingAfterZip(l, ok) == FALSE

\* generateAsync settles: on success a URL for the archive is created and the
\* download is triggered, on failure the message is set; loading is reset in
\* both cases.
DownloadAllSettle(z, ok) ==
    /\ z \in DOMAIN zips
    /\ lastAction' = IF ok THEN "DownloadAllDone" ELSE "DownloadAllFailed"
    /\ lastBatch' = <<>>
    /\ UNCHANGED <<given, recovering>>
    /\ zips' = RemoveAt(zips, z)
    /\ IF ok
       THEN /\ urls' = CreateUrl(urls, "zip")
            /\ archives' = Append(archives, zips[z])
       ELSE UNCHANGED <<urls, archives>>
    /\ IF mounted /\ ~ok
       THEN error' = ErrorAfterZip(error, ok) /\ errWriter' = "zip"
       ELSE UNCHANGED <<error, errWriter>>
    /\ loading' = IF mounted THEN LoadingAfterZip(loading, ok) ELSE loading
    /\ UNCHANGED <<app, mounted, heicFiles, convertedImages, outputFormat,
                   adds, runs, history, quiet, admitted, everCleared>>

\* ------------------------------------------------------ clear and teardown
\* (as a bug would have it: the button sits in the converted section)
ClearAllEnabledOnConverted == app = "part_000" /\ Len(convertedImages) > 0

\* The Clear All button exists in part_000 only, while heicFiles is not empty.
ClearAllEnabled == app = "part_000" /\ Len(heicFiles) > 0

\* The click handler revokes the URLs of both lists and resets the state; the
\* re-render that follows runs the effect cleanup on the lists just replaced.
ClearAll ==
    /\ mounted
    /\ recovering \/ Len(history) < MaxOps
    /\ ClearAllEnabled
    /\ history' = Append(history, "clear")
    /\ quiet' = (quiet /\ Idle)
    /\ lastAction' = "ClearAll"
    /\ lastBatch' = <<>>
    /\ UNCHANGED <<given, recovering>>
    /\ urls' = EffectCleanup(app,
                   RevokeLists(urls, heicFiles, convertedImages),
                   heicFiles, convertedImages)
    /\ heicFiles' = <<>>
    /\ convertedImages' = <<>>
    /\ error' = NoError
    /\ errWriter' = "clear"
    /\ everCleared' = TRUE
    /\ admitted' = <<>>
    /\ UNCHANGED <<app, mounted, outputFormat, loading, adds, runs, zips,
                   archives>>

\* The component is torn down: the effect cleanup runs a last time.  Calls in
\* flight go on, and their setState calls no longer change anything.
Unmount ==
    /\ mounted
    /\ Len(history) < MaxOps
    /\ history' = Append(history, "unmount")
    /\ quiet' = (quiet /\ Idle)
    /\ lastAction' = "Unmount"
    /\ lastBatch' = <<>>
    /\ UNCHANGED <<given, recovering>>
    /\ mounted' = FALSE
    /\ urls' = EffectCleanup(app, urls, heicFiles, convertedImages)
    /\ UNCHANGED <<app, heicFiles, convertedImages, outputFormat, loading,
                   error, adds, runs, zips, archives, admitted,
                   everCleared, errWriter>>

\* ------------------------------------------------------------------- Next
Next ==
    \/ \E batch \in Batches : AddStart(batch)
    \/ \E a \in DOMAIN adds : \E j \in DOMAIN adds[a].thumbs :
           \E ok \in BOOLEAN : ThumbSettle(a, j, ok)
    \/ \E a \in DOMAIN adds : AddPublish(a)
    \/ \E fmt \in {"jpeg", "png"} : SetFormat(fmt)
    \/ ConvertStart
    \/ \E r \in DOMAIN runs : \E ok \in BOOLEAN : ConvertStep(r, ok)
    \/ \E r \in DOMAIN runs : ConvertFinish(r)
    \/ DownloadAllStart
    \/ \E z \in DOMAIN zips : \E ok \in BOOLEAN : DownloadAllSettle(z, ok)
    \/ ClearAll
    \/ Unmount

Spec == Init /\ [][Next]_vars

\* --------------------------------------------------------------- recovery
\* The idle state: both lists empty, no message, not loading.
IdleState ==
    /\ heicFiles = <<>>
    /\ convertedImages = <<>>
    /\ error = NoError
    /\ ~loading

\* A file that passes validation.
RecoveryBatch == <<MkFile(<<"a", ".", "h", "e", "i", "c">>, "image/heic", 1)>>

\* At any moment of the mounted part_000 component the user may set out to
\* bring it back to the idle state.  From then on the user does only this:
\* waits for what is in flight; clicks Clear All if the button is there; and
\* otherwise, the button being rendered only over a non-empty accepted list,
\* first hands over one valid file.
StartRecovery ==
    /\ mounted
    /\ app = "part_000"
    /\ ~recovering
    /\ recovering' = TRUE
    /\ UNCHANGED <<app, mounted, heicFiles, convertedImages, outputFormat,
                   loading, error, urls, adds, runs, zips, archives, history,
                   quiet, given, lastAction, lastBatch, admitted, everCleared,
                   errWriter>>

RecoveryClear == recovering /\ Idle /\ ClearAll

RecoveryAdd ==
    /\ recovering
    /\ Idle
    /\ ~IdleState
    /\ heicFiles = <<>>
    /\ AddStart(RecoveryBatch)

ThumbSettles ==
    \E a \in DOMAIN adds : \E j \in DOMAIN adds[a].thumbs :
        \E ok \in BOOLEAN : ThumbSettle(a, j, ok)

AddPublishes == \E a \in DOMAIN adds : AddPublish(a)

ConvertSteps == \E r \in DOMAIN runs : \E ok \in BOOLEAN : ConvertStep(r, ok)

ConvertFinishes == \E r \in DOMAIN runs : ConvertFinish(r)

DownloadAllSettles ==
    \E z \in DOMAIN zips : \E ok \in BOOLEAN : DownloadAllSettle(z, ok)

NextRecover ==
    \/ ~recovering /\ Next
    \/ StartRecovery
    \/ recovering /\ ThumbSettles
    \/ recovering /\ AddPublishes
    \/ recovering /\ ConvertSteps
    \/ recovering /\ ConvertFinishes
    \/ recovering /\ DownloadAllSettles
    \/ RecoveryClear
    \/ RecoveryAdd

\* Every codec call and every archive call settles, every continuation of a
\* settled promise runs, and the user who has set out to recover goes on.
SpecRecover ==
    /\ Init
    /\ [][NextRecover]_vars
    /\ WF_vars(ThumbSettles)
    /\ WF_vars(AddPublishes)
    /\ WF_vars(ConvertSteps)
    /\ WF_vars(ConvertFinishes)
    /\ WF_vars(DownloadAllSettles)
    /\ WF_vars(RecoveryClear)
    /\ WF_vars(RecoveryAdd)

TypeOK ==
    /\ app \in Apps
    /\ mounted \in BOOLEAN
    /\ loading \in BOOLEAN
    /\ outputFormat \in {"jpeg", "png"}
    /\ Len(history) \in 0..MaxOps
    /\ quiet \in BOOLEAN
    /\ recovering \in BOOLEAN

\* ------------------------------------------------------------- accounting
RECURSIVE RevokeCalls(_)
\* The number of revokeObjectURL calls made on handles of the table.
RevokeCalls(table) ==
    IF table = <<>> THEN 0
    ELSE table[Len(table)].revokes + RevokeCalls(SubSeq(table, 1, Len(table) - 1))

CreateCalls(table) == Len(table)

\* C1: after the sequence add (thumbnailing completed) -> convert (run
\* completed) -> Clear All, with no operation overlapping another, as many
\* revokeObjectURL calls have been made on handles as createObjectURL calls.
C1_HandleAccounting ==
    (quiet /\ Idle /\ history = <<"add", "convert", "clear">>)
        => RevokeCalls(urls) = CreateCalls(urls)

\* ------------------------------------------------------------- conversion
FilesOf(items) == [i \in 1..Len(items) |-> items[i].file]

Range(seq) == {seq[i] : i \in DOMAIN seq}

\* The run that the step lastAction' = "ConvertFinish" has just ended.
EndedRun(r) == r \in DOMAIN runs /\ runs' = RemoveAt(runs, r)

\* C2 (as claimed): a run over N files in which K calls fail goes through all
\* N calls, publishes N-K items, and ends with a message naming one of the
\* failing files whenever K >= 1.
C2_BestEffortAsClaimed ==
    [][ (lastAction' = "ConvertFinish" /\ mounted) =>
          \E r \in DOMAIN runs :
              /\ EndedRun(r)
              /\ Len(runs[r].out) + Len(runs[r].failed) = Len(runs[r].items)
              /\ Len(convertedImages') = Len(runs[r].items) - Len(runs[r].failed)
              /\ Len(runs[r].failed) >= 1 =>
                    /\ error'.kind = "convertFailed"
                    /\ error'.name \in Range(runs[r].failed) ]_vars

\* C2 (amended): as above, the message naming one of the failing files
\* whenever K >= 1 and no add or Clear All action has written the message
\* since the run's last failing call.
C2_BestEffort ==
    [][ (lastAction' = "ConvertFinish" /\ mounted) =>
          \E r \in DOMAIN runs :
              /\ EndedRun(r)
              /\ Len(runs[r].out) + Len(runs[r].failed) = Len(runs[r].items)
              /\ Len(convertedImages') = Len(runs[r].items) - Len(runs[r].failed)
              /\ (Len(runs[r].failed) >= 1 /\ errWriter' = "convertFail") =>
                    /\ error'.kind = "convertFailed"
                    /\ error'.name \in Range(runs[r].failed) ]_vars

\* A run over two files has ended with one failure and one converted item.
C2_Witness ==
    /\ lastAction = "ConvertFinish"
    /\ mounted
    /\ Len(heicFiles) = 2
    /\ Len(convertedImages) = 1
    /\ errWriter = "convertFail"
    /\ error.kind = "convertFailed"

\* ------------------------------------------------------------ output names
EndsInSourceExt(name) ==
    EndsWith(LowerAll(name), DotHeic) \/ EndsWith(LowerAll(name), DotHeif)

\* C3: the output name of every converted item ends in the extension of the
\* format it was converted to and does not end in .heic or .heif, in any
\* letter case.
C3_OutputNameExtension ==
    \A i \in DOMAIN convertedImages :
        /\ EndsWith(convertedImages[i].name, TargetExt(convertedImages[i].blob.type))
        /\ ~EndsInSourceExt(convertedImages[i].name)

\* ------------------------------------------------------------- validation
\* The allow-list: the primary and the vendor-prefixed identifiers.
AllowList == {"image/heic", "image/heif", "image/x-heic", "image/x-heif"}

\* The files the add action of the step lastAction' = "AddStart" has kept:
\* those whose thumbnails it requests (part_000), those it appends (App.jsx).
KeptByAdd ==
    IF app = "part_000"
    THEN adds'[Len(adds')].files
    ELSE FilesOf(SubSeq(heicFiles', Len(heicFiles) + 1, Len(heicFiles')))

Count(x, seq) == Cardinality({i \in DOMAIN seq : seq[i] = x})

\* The files of the batch that the revision's type list and the size limit let
\* through, and the others.
Valid(file) == file.type \in AllowedTypes(app) /\ file.size <= MaxBytes

\* C4: no accepted item, and no file whose thumbnail is awaited, has a media
\* type outside the allow-list; an add action keeps every valid file of its
\* batch, as often as the batch holds it, whatever else the batch holds; and
\* if it rejects a file the message names a rejected file of the batch.
C4_AllowList ==
    /\ [](/\ \A i \in DOMAIN heicFiles : heicFiles[i].file.type \in AllowList
          /\ \A a \in DOMAIN adds : \A j \in DOMAIN adds[a].files :
                 adds[a].files[j].type \in AllowList)
    /\ [][ lastAction' = "AddStart" =>
             /\ \A f \in Range(lastBatch') :
                    Count(f, KeptByAdd) = IF Valid(f) THEN Count(f, lastBatch') ELSE 0
             /\ Len(KeptByAdd) < Len(lastBatch') =>
                    /\ error'.kind \in {"unsupported", "tooLarge"}
                    /\ \E f \in Range(lastBatch') :
                           ~Valid(f) /\ error'.name = f.name ]_vars

\* An add of two files, one of an unsupported type, has kept the other one
\* and names the rejected one.
C4_Witness ==
    /\ lastAction = "AddStart"
    /\ app = "part_000"
    /\ Len(lastBatch) = 2
    /\ \E i \in DOMAIN lastBatch : lastBatch[i].type \notin AllowList
    /\ Len(adds[Len(adds)].files) = 1
    /\ error.kind = "unsupported"

\* C5: an add action keeps a file of an allowed type whose size is exactly
\* the maximum and drops one that is one byte larger; no accepted item is
\* larger than the maximum.
C5_SizeBoundary ==
    /\ [](\A i \in DOMAIN heicFiles : heicFiles[i].file.size <= 25 * 1024 * 1024)
    /\ [][ lastAction' = "AddStart" =>
             \A f \in Range(lastBatch') :
                 f.type \in AllowedTypes(app) =>
                     /\ f.size = 25 * 1024 * 1024 => Count(f, KeptByAdd) > 0
                     /\ f.size = 25 * 1024 * 1024 + 1 => Count(f, KeptByAdd) = 0 ]_vars

\* An add of a file at the maximum and a file one byte over it has kept the
\* first only.
C5_Witness ==
    /\ lastAction = "AddStart"
    /\ app = "part_000"
    /\ \E i \in DOMAIN lastBatch : lastBatch[i].size = MaxBytes
    /\ \E i \in DOMAIN lastBatch :
           lastBatch[i].size = MaxBytes + 1 /\ lastBatch[i].type \in AllowList
    /\ Len(adds[Len(adds)].files) = 1
    /\ adds[Len(adds)].files[1].size = MaxBytes
    /\ error.kind = "tooLarge"

\* ------------------------------------------------------------- revocation
\* C6: no handle is passed to revokeObjectURL more than once.
C6_NoDoubleRevoke == \A h \in DOMAIN urls : urls[h].revokes <= 1

\* ----------------------------------------------------------- accumulation
IsPrefix(s, t) == Len(s) <= Len(t) /\ SubSeq(t, 1, Len(s)) = s

\* C7: a step other than Clear All keeps the accepted list as a prefix of the
\* new one; and once every add action has published, with no Clear All and no
\* teardown, the accepted list holds every validated file of every add action
\* as often as it was validated.
C7_Accumulation ==
    /\ [][ lastAction' # "ClearAll" => IsPrefix(heicFiles, heicFiles') ]_vars
    /\ []((adds = <<>> /\ ~everCleared /\ mounted) =>
             /\ Len(heicFiles) = Len(admitted)
             /\ \A f \in Range(admitted) :
                    Count(f, FilesOf(heicFiles)) = Count(f, admitted))

\* Two add actions overlapped (the second was issued while the first awaited
\* its thumbnail), both have published, and the list holds a file of each.
C7_Witness ==
    /\ history = <<"add", "add">>
    /\ ~quiet
    /\ adds = <<>>
    /\ mounted
    /\ Len(heicFiles) = 2
    /\ lastAction = "AddPublish"

\* ------------------------------------------------------------------ clear
\* The handles created for an accepted item: with a thumbnail, the three
\* createObjectURL calls of lines 43, 44 and 47, the last being the thumbnail.
HandlesOfItem(item) ==
    IF item.thumbnail = NoHandle THEN {}
    ELSE {item.thumbnail - 2, item.thumbnail - 1, item.thumbnail}

HandlesOfLists(items, images) ==
    UNION {HandlesOfItem(items[i]) : i \in DOMAIN items}
        \cup {images[i].url : i \in DOMAIN images}

Outstanding(table) == {h \in DOMAIN table : table[h].revokes = 0}

\* C8: Clear All leaves no handle created for an accepted item or a converted
\* item outstanding, and leaves both lists empty and the message null.
C8_ClearRevokesAll ==
    [][ lastAction' = "ClearAll" =>
          /\ HandlesOfLists(heicFiles, convertedImages) \cap Outstanding(urls') = {}
          /\ heicFiles' = <<>>
          /\ convertedImages' = <<>>
          /\ error' = NoError ]_vars

\* ---------------------------------------------------------------- one run
\* C9: at most one conversion run is in flight, and no run is over an empty
\* list.
C9_SingleRun ==
    /\ Len(runs) <= 1
    /\ \A r \in DOMAIN runs : Len(runs[r].items) > 0

\* A run is in flight and the Convert button is disabled although the
\* accepted list is not empty.
C9_Witness ==
    /\ Len(runs) = 1
    /\ mounted
    /\ loading
    /\ Len(heicFiles) > 0
    /\ ~ConvertEnabled

\* ---------------------------------------------------------------- archive
\* C10: download-all is never started on an empty converted list, and every
\* archive produced holds exactly one entry per converted item it was built
\* from, under that item's output name.
C10_ArchiveEntries ==
    /\ \A z \in DOMAIN zips : Len(zips[z].images) > 0
    /\ \A a \in DOMAIN archives :
           /\ Cardinality(DOMAIN archives[a].entries) = Len(archives[a].images)
           /\ \A i \in DOMAIN archives[a].images :
                  /\ archives[a].images[i].name \in DOMAIN archives[a].entries
                  /\ archives[a].entries[archives[a].images[i].name]
                         = archives[a].images[i].blob

\* -------------------------------------------------------- archive failure
\* C11: when the archive writer fails, no download is triggered and no URL is
\* created, the message becomes the one batch-level message, both lists stay
\* as they were and loading is false again.
C11_ArchiveFailure ==
    [][ (lastAction' = "DownloadAllFailed" /\ mounted) =>
          /\ archives' = archives
          /\ urls' = urls
          /\ error' = [kind |-> "zipFailed", name |-> <<>>]
          /\ convertedImages' = convertedImages
          /\ heicFiles' = heicFiles
          /\ loading
          /\ ~loading' ]_vars

\* A download-all has failed with its converted list still displayed.
C11_Witness ==
    /\ lastAction = "DownloadAllFailed"
    /\ mounted
    /\ error.kind = "zipFailed"
    /\ Len(convertedImages) > 0
    /\ archives = <<>>
    /\ ~loading

\* ---------------------------------------------------------- order of a run
OriginalFiles(images) == [i \in 1..Len(images) |-> images[i].originalFile]

RECURSIVE IsSubseq(_, _)
\* s can be had from t by dropping elements.
IsSubseq(s, t) ==
    IF s = <<>> THEN TRUE
    ELSE IF t = <<>> THEN FALSE
    ELSE IF Head(s) = Head(t) THEN IsSubseq(Tail(s), Tail(t))
    ELSE IsSubseq(s, Tail(t))

\* The codec calls awaited at this moment: one per run still in its loop.
CallsInFlight == {r \in DOMAIN runs : runs[r].idx <= Len(runs[r].items)}

\* C13: a run awaits one codec call at a time, the one for item idx of its
\* list, after the calls for items 1..idx-1 have settled; each settling adds
\* the item of that very file at the end of the results or adds nothing; and
\* the published list is the results, in the order of the run's list.
C13_SequentialOrder ==
    /\ [](/\ Cardinality(CallsInFlight) <= 1
          /\ \A r \in DOMAIN runs :
                 /\ Len(runs[r].out) + Len(runs[r].failed) = runs[r].idx - 1
                 /\ IsSubseq(OriginalFiles(runs[r].out),
                             FilesOf(SubSeq(runs[r].items, 1, runs[r].idx - 1))))
    /\ [][ lastAction' = "ConvertStep" =>
             \E r \in DOMAIN runs :
                 /\ runs'[r].idx = runs[r].idx + 1
                 /\ \/ runs'[r].out = runs[r].out
                    \/ /\ Len(runs'[r].out) = Len(runs[r].out) + 1
                       /\ SubSeq(runs'[r].out, 1, Len(runs[r].out)) = runs[r].out
                       /\ runs'[r].out[Len(runs'[r].out)].originalFile
                              = runs[r].items[runs[r].idx].file ]_vars
    /\ [][ (lastAction' = "ConvertFinish" /\ mounted) =>
             \E r \in DOMAIN runs :
                 /\ EndedRun(r)
                 /\ convertedImages' = runs[r].out
                 /\ IsSubseq(OriginalFiles(convertedImages'),
                             FilesOf(runs[r].items)) ]_vars

\* A run over two different files has published both, in the list's order.
C13_Witness ==
    /\ lastAction = "ConvertFinish"
    /\ mounted
    /\ Len(convertedImages) = 2
    /\ convertedImages[1].originalFile # convertedImages[2].originalFile
    /\ OriginalFiles(convertedImages) = FilesOf(heicFiles)

\* ------------------------------------------------------ size of the output
\* C14: when a run publishes its results, the converted list is no longer
\* than the accepted list is at that moment.
C14_OutputNoLargerThanAccepted ==
    (lastAction = "ConvertFinish" /\ mounted)
        => Len(convertedImages) <= Len(heicFiles)

\* ----------------------------------------------------------- repeated runs
OutputHandles == {h \in DOMAIN urls : urls[h].kind = "output"}

\* The output handles of the latest run: those of the run in flight, or of
\* the converted list when no run is in flight.
LatestRunHandles ==
    IF runs # <<>>
    THEN UNION {Range(OutputUrls(runs[r].out)) : r \in DOMAIN runs}
    ELSE Range(OutputUrls(convertedImages))

\* C15: the converted list is empty while a run is in flight, and every
\* output handle that has not been revoked belongs to the latest run.
C15_RepeatedRunsDoNotLeak ==
    mounted =>
        /\ runs # <<>> => convertedImages = <<>>
        /\ \A h \in OutputHandles : urls[h].revokes = 0 => h \in LatestRunHandles

\* ------------------------------------------------------------ error state
\* C16: right after a convert or a download-all is started the message is
\* null, and right after an add is started it is null or names a file that
\* this add has rejected.
C16_ErrorClearedAtStart ==
    /\ lastAction \in {"ConvertStart", "DownloadAllStart"} => error = NoError
    /\ lastAction = "AddStart" =>
           \/ error = NoError
           \/ /\ error.kind \in {"unsupported", "tooLarge"}
              /\ \E i \in DOMAIN lastBatch : lastBatch[i].name = error.name

\* ----------------------------------------------------------- unique names
\* C17: no two items of the converted list have the same output name, and
\* neither have two results of a run in flight.
C17_UniqueOutputNames ==
    /\ \A i, j \in DOMAIN convertedImages :
           i # j => convertedImages[i].name # convertedImages[j].name
    /\ \A r \in DOMAIN runs : \A i, j \in DOMAIN runs[r].out :
           i # j => runs[r].out[i].name # runs[r].out[j].name

\* ------------------------------------------------------- use after revoke
\* C19: every thumbnail handle of the accepted list and every output handle of
\* the converted list has been created and has not been revoked.
C19_NoUseAfterRevoke ==
    mounted =>
        /\ \A i \in DOMAIN heicFiles :
               heicFiles[i].thumbnail # NoHandle =>
                   /\ heicFiles[i].thumbnail \in DOMAIN urls
                   /\ urls[heicFiles[i].thumbnail].revokes = 0
        /\ \A i \in DOMAIN convertedImages :
               /\ convertedImages[i].url \in DOMAIN urls
               /\ urls[convertedImages[i].url].revokes = 0

\* ------------------------------------------------------------ thumbnailing
\* C18 (part_000): an add action leaves the accepted list alone and has one
\* request pending per validated file; each pending request can settle,
\* either way, whatever the others have done; and the accepted list grows
\* only in the step that takes an add whose requests have all settled, by
\* one item per validated file of that add, in order, a failed request giving
\* an item with no thumbnail.
C18_StableThumbnailSet ==
    /\ [](\A a \in DOMAIN adds : \A j \in DOMAIN adds[a].thumbs :
              adds[a].thumbs[j] = Pending =>
                  /\ ENABLED ThumbSettle(a, j, TRUE)
                  /\ ENABLED ThumbSettle(a, j, FALSE))
    /\ [][ (lastAction' = "AddStart" /\ app = "part_000") =>
             /\ heicFiles' = heicFiles
             /\ Len(adds') = Len(adds) + 1
             /\ adds'[Len(adds')].files = Filter(app, lastBatch')
             /\ Len(adds'[Len(adds')].thumbs) = Len(adds'[Len(adds')].files)
             /\ \A j \in DOMAIN adds'[Len(adds')].thumbs :
                    adds'[Len(adds')].thumbs[j] = Pending ]_vars
    /\ [][ (app = "part_000" /\ heicFiles' # heicFiles /\ lastAction' # "ClearAll") =>
             \E a \in DOMAIN adds :
                 /\ \A j \in DOMAIN adds[a].thumbs : adds[a].thumbs[j] # Pending
                 /\ adds' = RemoveAt(adds, a)
                 /\ Len(heicFiles') = Len(heicFiles) + Len(adds[a].files)
                 /\ SubSeq(heicFiles', 1, Len(heicFiles)) = heicFiles
                 /\ \A j \in DOMAIN adds[a].files :
                        /\ heicFiles'[Len(heicFiles) + j].file = adds[a].files[j]
                        /\ heicFiles'[Len(heicFiles) + j].thumbnail
                               = adds[a].thumbs[j] ]_vars

\* An add of two files has published both, one with a thumbnail and one whose
\* request failed.
C18_Witness ==
    /\ lastAction = "AddPublish"
    /\ app = "part_000"
    /\ mounted
    /\ history = <<"add">>
    /\ Len(heicFiles) = 2
    /\ heicFiles[1].thumbnail = NoHandle
    /\ heicFiles[2].thumbnail # NoHandle

\* ------------------------------------------------------------ loading flag
\* C20: while the component is mounted, loading is true exactly when a
\* conversion run or a bundling is in flight, and at most one of the two is
\* in flight; so no completion resets loading under an operation still running.
C20_LoadingMeansInFlight ==
    mounted =>
        /\ loading <=> (runs # <<>> \/ zips # <<>>)
        /\ Len(runs) + Len(zips) <= 1

\* A bundling that failed has ended: loading is false again and nothing is in
\* flight.
C20_Witness ==
    /\ mounted
    /\ lastAction = "DownloadAllFailed"
    /\ history[Len(history)] = "download-all"
    /\ ~loading
    /\ runs = <<>>
    /\ zips = <<>>

====
